---- MODULE Spec2Model ----
(***************************************************************************)
(* Model of download_ico.py: the batch loop of main, download_icon and the *)
(* favicon locator (resolve_favicon_url and its two steps), run against a  *)
(* web whose answers are chosen nondeterministically at every request and  *)
(* an output directory whose writes may fail (Spec); and                    *)
(* get_all_http_icons, which turns the sites of the dataset into the task  *)
(* list, run over datasets of a few urls (SpecBuild).                      *)
(***************************************************************************)
EXTENDS Integers, Sequences, FiniteSets, TLC

\* ------------------------------------------------------------- bounds
MaxTasks == 2
MaxLinks == 2
MaxSites == 2

\* ------------------------------------------------ program constants
MIN_ICON_SIZE == 100

ICON_CONTENT_TYPES == {"image/x-icon", "image/vnd.microsoft.icon"}
PNG_CONTENT_TYPES == {"image/png"}
\* FAVICON_RELS without its last entry.
RelsWithoutAppleTouch == << <<"icon">>, <<"shortcut", "icon">> >>

FAVICON_RELS == << <<"icon">>, <<"shortcut", "icon">>, <<"apple-touch-icon">> >>

\* ------------------------------------------------------------- URLs
\* A URL is its scheme, its authority and the segments of its path.
NoUrl == [scheme |-> "", netloc |-> "", path |-> <<>>]

\* The two dataset entries batches are built from: a plain site URL and an
\* icon-proxy URL, as get_all_http_icons turns them into tasks.
TaskPool ==
  { [url |-> [scheme |-> "https", netloc |-> "a.com", path |-> <<"page">>],
     filename |-> "a.com.ico"],
    [url |-> [scheme |-> "https", netloc |-> "icon.maodeyu.fun",
              path |-> <<"favicon", "b.com">>],
     filename |-> "b.com.ico"] }

Filenames == {t.filename : t \in TaskPool}

SeqsUpTo(S, n) == UNION {[1..k -> S] : k \in 1..n}

TaskLists == SeqsUpTo(TaskPool, MaxTasks)

\* f"{parsed_url.scheme}://{parsed_url.netloc}"
BaseUrl(site_url) == [scheme |-> site_url.scheme, netloc |-> site_url.netloc, path |-> <<>>]

\* f"{base_url}/favicon.ico"
IcoUrl(base_url) == [base_url EXCEPT !.path = <<"favicon.ico">>]

\* An href attribute: missing, empty, absolute, root-relative ("/i.ico") or
\* relative ("s.ico").
NoHref == [kind |-> "none", netloc |-> "", path |-> <<>>]

\* urljoin(base_url, href) for a base that has no path; the absolute hrefs of
\* the model are https URLs.
urljoin(base_url, href) ==
  IF href.kind = "abs"
  THEN [scheme |-> "https", netloc |-> href.netloc, path |-> href.path]
  ELSE IF href.kind \in {"root", "rel"}
  THEN [base_url EXCEPT !.path = href.path]
  ELSE base_url

\* ------------------------------------------------------------- HTML
\* A parsed page is the sequence of its <link> tags in document order.
LinkTags ==
  { [rel |-> <<"icon">>, href |-> [kind |-> "root", netloc |-> "", path |-> <<"i.ico">>]],
    [rel |-> <<"shortcut", "icon">>, href |-> [kind |-> "rel", netloc |-> "", path |-> <<"s.ico">>]],
    [rel |-> <<"apple-touch-icon">>, href |-> [kind |-> "abs", netloc |-> "cdn.net", path |-> <<"a.png">>]],
    [rel |-> <<"icon">>, href |-> NoHref] }

Injective(s) == \A a, b \in DOMAIN s : a # b => s[a] # s[b]

Pages == {<<>>} \cup {p \in SeqsUpTo(LinkTags, MaxLinks) : Injective(p)}

\* bs4 matches a multi-valued attribute (rel) against a string when one of its
\* tokens is the string, or the whole attribute value is.
RelMatches(tagRel, rel) ==
  \/ \E k \in DOMAIN tagRel : <<tagRel[k]>> = rel
  \/ tagRel = rel

\* Find taking the last matching tag of the document instead of the first.
FindLast(page, rel) ==
  IF \E k \in DOMAIN page : RelMatches(page[k].rel, rel)
  THEN CHOOSE k \in DOMAIN page :
         /\ RelMatches(page[k].rel, rel)
         /\ \A j \in (k + 1)..Len(page) : ~RelMatches(page[j].rel, rel)
  ELSE 0

\* soup.find("link", rel=rel): the index of the first matching tag, 0 if none.
Find(page, rel) ==
  IF \E k \in DOMAIN page : RelMatches(page[k].rel, rel)
  THEN CHOOSE k \in DOMAIN page :
         /\ RelMatches(page[k].rel, rel)
         /\ \A j \in 1..(k - 1) : ~RelMatches(page[j].rel, rel)
  ELSE 0

\* tag and tag.get("href")
HasHref(page, rel) ==
  /\ Find(page, rel) # 0
  /\ page[Find(page, rel)].href.kind \notin {"none", "empty"}

\* ------------------------------------------------------------- HTTP
NoPage == <<>>
NoResp == [kind |-> "none", status |-> 0, size |-> 0, ctype |-> "", exc |-> "", page |-> NoPage]

Statuses == {200, 404}
Sizes == {MIN_ICON_SIZE - 1, MIN_ICON_SIZE}
ContentTypes == {"image/x-icon", "image/vnd.microsoft.icon", "image/png", "text/html"}

\* What a GET of an icon address may produce: a response, or an exception.
Response(st, sz, ct) ==
  [kind |-> "resp", status |-> st, size |-> sz, ctype |-> ct, exc |-> "", page |-> NoPage]

Raised(e) == [kind |-> "exc", status |-> 0, size |-> 0, ctype |-> "", exc |-> e, page |-> NoPage]

\* httpx.RequestError (transport errors, timeouts) and every other Exception
\* (httpx.InvalidURL, a parser error, ValueError from urljoin, ...).
Exceptions == {"RequestError", "Exception"}

\* Every size and content type under a success status, and an error status
\* whose size and content type would pass.
IconOutcomes ==
  {Response(200, sz, ct) : sz \in Sizes, ct \in ContentTypes}
    \cup {Response(404, MIN_ICON_SIZE, "image/x-icon")}
    \cup {Raised(e) : e \in Exceptions}

\* What the GET of the site page followed by BeautifulSoup may produce.
PageOutcomes ==
  {[kind |-> "resp", status |-> st, size |-> MIN_ICON_SIZE, ctype |-> "text/html",
    exc |-> "", page |-> p] : st \in Statuses, p \in Pages}
    \cup {Raised(e) : e \in Exceptions}

\* response.is_success
is_success(status) == status >= 200 /\ status <= 299

\* "mime in content_type": the header values of the model hold one MIME type.
Mentions(content_type, mimes) == content_type \in mimes

\* is_valid_icon_response with "<=" for "<": a body of exactly MIN_ICON_SIZE
\* bytes is rejected.
valid_above_min_size(r) ==
  IF ~is_success(r.status) \/ r.size <= MIN_ICON_SIZE
  THEN FALSE
  ELSE Mentions(r.ctype, ICON_CONTENT_TYPES) \/ Mentions(r.ctype, PNG_CONTENT_TYPES)

\* is_valid_icon_response without the content-type test.
valid_any_type(r) == is_success(r.status) /\ r.size >= MIN_ICON_SIZE

is_valid_icon_response(r) ==
  IF ~is_success(r.status) \/ r.size < MIN_ICON_SIZE
  THEN FALSE
  ELSE Mentions(r.ctype, ICON_CONTENT_TYPES) \/ Mentions(r.ctype, PNG_CONTENT_TYPES)

\* except httpx.RequestError in the two locator steps
LocatorCatches(e) == e = "RequestError"

\* download_icon without its "except Exception" clause.
CatchesRequestErrorOnly(e) == e = "RequestError"

\* except httpx.RequestError / except Exception in download_icon
DownloadCatches(e) == e \in {"RequestError", "Exception", "HTTPStatusError", "OSError"}

\* ------------------------------------------------------------- files
Absent == [kind |-> "absent", conv |-> FALSE, ctype |-> "", size |-> 0]
Old == [kind |-> "old", conv |-> FALSE, ctype |-> "", size |-> 0]
Empty == [kind |-> "empty", conv |-> FALSE, ctype |-> "", size |-> 0]
NoData == [kind |-> "none", conv |-> FALSE, ctype |-> "", size |-> 0]

\* resp.content, written as it came
RawData(r) == [kind |-> "full", conv |-> FALSE, ctype |-> r.ctype, size |-> r.size]

\* the result of a successful convert_png_to_ico
IcoData(r) == [kind |-> "full", conv |-> TRUE, ctype |-> r.ctype, size |-> r.size]

\* b"", what convert_png_to_ico returns when PIL raises
EmptyBytes == [kind |-> "full", conv |-> TRUE, ctype |-> "", size |-> 0]

\* convert_png_to_ico(png_data); decodes tells whether PIL can read the body
convert_png_to_ico(r, decodes) == IF decodes THEN IcoData(r) ELSE EmptyBytes

\* download_icon without "if not icon_data: return False".
NeverFalsy(d) == FALSE

\* "not icon_data"
IsFalsy(d) == d.size = 0

\* a file whose write stopped part-way through d
Partial(d) == [kind |-> "partial", conv |-> d.conv, ctype |-> "", size |-> 0]

\* "filepath.exists() and filepath.stat().st_size > 0" for "filepath.exists()".
ExistsNonEmpty(fs, name) == fs[name].kind \notin {"absent", "empty"}

\* download_icon without the "if filepath.exists()" test.
ExistsNever(fs, name) == FALSE

\* filepath.exists()
Exists(fs, name) == fs[name].kind # "absent"

VARIABLES
  tasks,          \* http_icons
  files,          \* the output directory: filename -> content
  files0,         \* the output directory as the run found it
  pc,             \* where the run is
  i,              \* number of tasks the loop has taken up
  success_count, failed_count, failed_urls,
  results,        \* what download_icon returned, call by call
  calls,          \* the task indexes download_icon was invoked with
  nreq,           \* number of requests issued during the current call
  resp,           \* outcome of the last request of the current call
  icon_url, icon_data,
  reqs,           \* URLs requested by the current resolve_favicon_url
  page, rel,      \* soup and the position in FAVICON_RELS
  rejected,       \* URLs whose response failed the validity check
  fault,          \* what went wrong in the current call
  locRaised,      \* an exception left resolve_favicon_url in this call
  dirBefore,      \* the output directory when the current call began
  data,           \* the url of each site of the dataset, in the order of the loops
  pos,            \* number of sites get_all_http_icons has looked at
  http_icons      \* the list get_all_http_icons is building

vars == <<tasks, files, files0, pc, i, success_count, failed_count, failed_urls,
          results, calls, nreq, resp, icon_url, icon_data, reqs, page, rel,
          rejected, fault, locRaised, dirBefore, data, pos, http_icons>>

buildVars == <<data, pos, http_icons>>

mainVars == <<success_count, failed_count, failed_urls, results>>

locVars == <<reqs, page, rel, rejected>>

task == tasks[i]
site_url == task.url
filename == task.filename
base_url == BaseUrl(site_url)

Init ==
  /\ tasks \in TaskLists
  /\ files \in [Filenames -> {Absent, Old}]
  /\ files0 = files
  /\ pc = "loop"
  /\ i = 0
  /\ success_count = 0
  /\ failed_count = 0
  /\ failed_urls = <<>>
  /\ results = <<>>
  /\ calls = <<>>
  /\ nreq = 0
  /\ resp = NoResp
  /\ icon_url = NoUrl
  /\ icon_data = NoData
  /\ reqs = <<>>
  /\ page = NoPage
  /\ rel = 0
  /\ rejected = {}
  /\ fault = "none"
  /\ locRaised = FALSE
  \* get_all_http_icons has returned; its locals are gone
  /\ data = <<>>
  /\ pos = 0
  /\ http_icons = <<>>
  /\ dirBefore = files

\* ------------------------------------------------------------- main
\* failed_urls.insert(0, url) for failed_urls.append(url).
FailedUrlsPrepended(urls, ok, url) == IF ok THEN urls ELSE <<url>> \o urls

\* if download_icon(...): success_count += 1 else: failed_count += 1; append
FailedUrlsAfter(urls, ok, url) == IF ok THEN urls ELSE Append(urls, url)

\* success_count left as it was.
SuccessNotCounted(n, ok) == n

SuccessAfter(n, ok) == IF ok THEN n + 1 ELSE n

FailedAfter(n, ok) == IF ok THEN n ELSE n + 1

\* The index of the task download_icon is called with: the loop's next task
\* when the call is being made, the task taken up last otherwise.
current == IF pc = "loop" THEN i + 1 ELSE i

\* The locals of resolve_favicon_url go out of scope.
Leave ==
  /\ reqs' = <<>>
  /\ page' = NoPage
  /\ rel' = 0
  /\ rejected' = {}

\* download_icon returns ok to the loop of main, which books the result.
Return(ok, kind) ==
  /\ pc' = "loop"
  /\ success_count' = SuccessAfter(success_count, ok)
  /\ failed_count' = FailedAfter(failed_count, ok)
  /\ failed_urls' = FailedUrlsAfter(failed_urls, ok, tasks[current].url)
  /\ results' = Append(results, kind)
  /\ Leave

\* An exception e reaches the try block of download_icon.
DownloadRaise(e) ==
  IF DownloadCatches(e)
  THEN Return(FALSE, "failed")
  ELSE pc' = "crashed" /\ Leave /\ UNCHANGED mainVars

\* session.get(url) inside resolve_favicon_url
LocatorGet(url, out) ==
  /\ reqs' = Append(reqs, url)
  /\ nreq' = nreq + 1
  /\ resp' = out

\* The loop takes up the next task and calls download_icon, which returns at
\* once when the target file exists.
DownloadStart ==
  /\ pc = "loop"
  /\ i < Len(tasks)
  /\ i' = i + 1
  /\ calls' = Append(calls, i + 1)
  /\ dirBefore' = files
  /\ nreq' = 0
  /\ resp' = NoResp
  /\ icon_url' = NoUrl
  /\ icon_data' = NoData
  /\ locRaised' = FALSE
  /\ IF Exists(files, tasks[i + 1].filename)
     THEN fault' = "exists" /\ Return(TRUE, "skipped")
     ELSE fault' = "none" /\ pc' = "favicon" /\ Leave /\ UNCHANGED mainVars
  /\ UNCHANGED <<buildVars, tasks, files, files0>>

\* ---------------------------------------------------------- locator
\* _try_favicon_ico
TryFaviconIco ==
  /\ pc = "favicon"
  /\ \E out \in IconOutcomes :
       IF out.kind = "resp"
       THEN IF is_valid_icon_response(out)
            THEN /\ LocatorGet(IcoUrl(base_url), out)
                 /\ icon_url' = IcoUrl(base_url)
                 /\ pc' = "fetch"
                 /\ UNCHANGED <<page, rel, rejected, fault, locRaised, mainVars>>
            ELSE /\ LocatorGet(IcoUrl(base_url), out)
                 /\ rejected' = rejected \cup {IcoUrl(base_url)}
                 /\ pc' = "html"
                 /\ UNCHANGED <<page, rel, icon_url, fault, locRaised, mainVars>>
       ELSE IF LocatorCatches(out.exc)
            THEN /\ LocatorGet(IcoUrl(base_url), out)
                 /\ pc' = "html"
                 /\ UNCHANGED <<page, rel, icon_url, rejected, fault, locRaised, mainVars>>
            ELSE /\ nreq' = nreq + 1
                 /\ resp' = out
                 /\ locRaised' = TRUE
                 /\ fault' = "other"
                 /\ DownloadRaise(out.exc)
                 /\ UNCHANGED icon_url
  /\ UNCHANGED <<buildVars, tasks, files, files0, i, calls, icon_data, dirBefore>>

\* _try_html_favicon: the request of the page and its parse
TryHtmlPage ==
  /\ pc = "html"
  /\ \E out \in PageOutcomes :
       /\ nreq' = nreq + 1
       /\ resp' = out
       /\ IF out.kind = "resp"
          THEN /\ reqs' = Append(reqs, site_url)
               /\ page' = out.page
               /\ rel' = 1
               /\ pc' = "rels"
               /\ UNCHANGED <<rejected, fault, locRaised, mainVars>>
          ELSE IF LocatorCatches(out.exc)
               THEN /\ fault' = "transport"
                    /\ Return(FALSE, "failed")
                    /\ UNCHANGED locRaised
               ELSE /\ locRaised' = TRUE
                    /\ fault' = "other"
                    /\ DownloadRaise(out.exc)
  /\ UNCHANGED <<buildVars, tasks, files, files0, i, calls, icon_url, icon_data, dirBefore>>

\* urljoin(base_url, tag["href"]) for the tag soup.find gives for the rel at
\* position r of FAVICON_RELS
Candidate(pg, r) == urljoin(base_url, pg[Find(pg, FAVICON_RELS[r])].href)

\* _try_html_favicon: one turn of "for rel in FAVICON_RELS" whose tag is
\* missing or has no href
TryRelSkip ==
  /\ pc = "rels"
  /\ rel <= Len(FAVICON_RELS)
  /\ ~HasHref(page, FAVICON_RELS[rel])
  /\ rel' = rel + 1
  /\ UNCHANGED <<buildVars, tasks, files, files0, pc, i, mainVars, calls, nreq, resp, icon_url,
                 icon_data, reqs, page, rejected, fault, locRaised, dirBefore>>

\* _try_html_favicon: one turn of the loop that requests the tag's href
TryRelFetch ==
  /\ pc = "rels"
  /\ rel <= Len(FAVICON_RELS)
  /\ HasHref(page, FAVICON_RELS[rel])
  /\ \E out \in IconOutcomes :
       IF out.kind = "resp"
       THEN IF is_valid_icon_response(out)
            THEN /\ LocatorGet(Candidate(page, rel), out)
                 /\ icon_url' = Candidate(page, rel)
                 /\ pc' = "fetch"
                 /\ UNCHANGED <<page, rel, rejected, fault, locRaised, mainVars>>
            ELSE /\ LocatorGet(Candidate(page, rel), out)
                 /\ rejected' = rejected \cup {Candidate(page, rel)}
                 /\ rel' = rel + 1
                 /\ UNCHANGED <<pc, page, icon_url, fault, locRaised, mainVars>>
       ELSE /\ nreq' = nreq + 1
            /\ resp' = out
            /\ UNCHANGED icon_url
            /\ IF LocatorCatches(out.exc)
               THEN /\ fault' = "transport"
                    /\ Return(FALSE, "failed")
                    /\ UNCHANGED locRaised
               ELSE /\ locRaised' = TRUE
                    /\ fault' = "other"
                    /\ DownloadRaise(out.exc)
  /\ UNCHANGED <<buildVars, tasks, files, files0, i, calls, icon_data, dirBefore>>

\* _try_html_favicon falls out of the loop: return None, "if not icon_url"
TryRelsExhausted ==
  /\ pc = "rels"
  /\ rel > Len(FAVICON_RELS)
  /\ fault' = "notfound"
  /\ Return(FALSE, "failed")
  /\ UNCHANGED <<buildVars, tasks, files, files0, i, calls, nreq, resp, icon_url, icon_data,
                 locRaised, dirBefore>>

\* ------------------------------------------------------ download_icon
\* "any(png_type in content_type ...)" then convert, else the body as it is
Adapt(r, decodes) ==
  IF Mentions(r.ctype, PNG_CONTENT_TYPES)
  THEN convert_png_to_ico(r, decodes)
  ELSE RawData(r)

\* "if not icon_data: return False" after a conversion
ConversionRejected(r, d) == Mentions(r.ctype, PNG_CONTENT_TYPES) /\ IsFalsy(d)

\* session.get(icon_url), raise_for_status, the conversion of a PNG body
ConfirmFetch ==
  /\ pc = "fetch"
  /\ \E out \in IconOutcomes :
     \E decodes \in IF Mentions(out.ctype, PNG_CONTENT_TYPES) THEN BOOLEAN ELSE {TRUE} :
       /\ nreq' = nreq + 1
       /\ resp' = out
       /\ IF out.kind = "exc"
          THEN /\ fault' = IF out.exc = "RequestError" THEN "transport" ELSE "other"
               /\ DownloadRaise(out.exc)
               /\ UNCHANGED icon_data
          ELSE IF ~is_success(out.status)
          THEN /\ fault' = "status"
               /\ DownloadRaise("HTTPStatusError")
               /\ UNCHANGED icon_data
          ELSE /\ icon_data' = Adapt(out, decodes)
               /\ fault' = IF decodes THEN "none" ELSE "conversion"
               /\ IF ConversionRejected(out, Adapt(out, decodes))
                  THEN Return(FALSE, "failed")
                  ELSE pc' = "open" /\ Leave /\ UNCHANGED mainVars
  /\ UNCHANGED <<buildVars, tasks, files, files0, i, calls, icon_url, locRaised, dirBefore>>

\* open(filepath, "wb"): creates the file, empty
OpenFile ==
  /\ pc = "open"
  /\ \/ /\ files' = [files EXCEPT ![filename] = Empty]
        /\ pc' = "write"
        /\ UNCHANGED <<fault, mainVars, locVars>>
     \/ /\ fault' = "open"
        /\ DownloadRaise("OSError")
        /\ UNCHANGED files
  /\ UNCHANGED <<buildVars, tasks, files0, i, calls, nreq, resp, icon_url, icon_data,
                 locRaised, dirBefore>>

\* f.write(icon_data) and the close of the file
WriteFile ==
  /\ pc = "write"
  /\ \/ /\ files' = [files EXCEPT ![filename] = icon_data]
        /\ pc' = "report"
        /\ UNCHANGED <<fault, mainVars, locVars>>
     \/ /\ files' \in {files, [files EXCEPT ![filename] = Partial(icon_data)]}
        /\ fault' = "write"
        /\ DownloadRaise("OSError")
  /\ UNCHANGED <<buildVars, tasks, files0, i, calls, nreq, resp, icon_url, icon_data,
                 locRaised, dirBefore>>

\* print(... filepath.stat().st_size ...); return True
Report ==
  /\ pc = "report"
  /\ \/ UNCHANGED fault /\ Return(TRUE, "success")
     \/ fault' = "report" /\ DownloadRaise("OSError")
  /\ UNCHANGED <<buildVars, tasks, files, files0, i, calls, nreq, resp, icon_url, icon_data,
                 locRaised, dirBefore>>

\* The locals of download_icon are gone.
Forget ==
  /\ Leave
  /\ resp' = NoResp
  /\ icon_url' = NoUrl
  /\ icon_data' = NoData

\* The loop is over: _print_download_summary
Finish ==
  /\ pc = "loop"
  /\ i = Len(tasks)
  /\ pc' = "done"
  /\ Forget
  /\ UNCHANGED <<buildVars, tasks, files, files0, i, mainVars, calls, nreq, fault, locRaised, dirBefore>>

\* KeyboardInterrupt: the process ends where it is; what is on disk stays.
Interrupt ==
  /\ pc \in {"loop", "favicon", "html", "rels", "fetch", "open", "write", "report"}
  /\ pc' = "aborted"
  /\ Forget
  /\ UNCHANGED <<buildVars, tasks, files, files0, i, mainVars, calls, nreq, fault, locRaised, dirBefore>>

Next ==
  \/ DownloadStart
  \/ TryFaviconIco
  \/ TryHtmlPage
  \/ TryRelSkip
  \/ TryRelFetch
  \/ TryRelsExhausted
  \/ ConfirmFetch
  \/ OpenFile
  \/ WriteFile
  \/ Report
  \/ Finish
  \/ Interrupt

Spec == Init /\ [][Next]_vars

\* ------------------------------------------------- get_all_http_icons
\* The url of a site is the sequence of its pieces: the separators "://" and
\* "/" and the text between them. <<>> is the url of a site without one.
DatasetUrls ==
  { <<"https", "://", "a.com", "/", "page">>,
    <<"https", "://", "a.com", "/", "other">>,
    <<"https", "://", "icon.maodeyu.fun", "/", "favicon", "/", "b.com">>,
    <<"https", "://", "cdn.net", "/", "myfavicon", "/", "b.com">>,
    <<"httpbin.org", "/", "x">>,
    <<"ftp", "://", "a.com", "/", "f">>,
    <<"/", "img", "/", "logo.png">>,
    <<>> }

Datasets == {<<>>} \cup SeqsUpTo(DatasetUrls, MaxSites)

\* The pieces that begin with the letters http.
HttpPrefixed == {"http", "https", "httpbin.org"}

\* icon_url.startswith("http")
startswith_http(u) == Len(u) > 0 /\ u[1] \in HttpPrefixed

\* The pieces that end with the letters favicon.
FaviconSuffixed == {"favicon", "myfavicon"}

\* "favicon/" in icon_url
contains_favicon(u) ==
  \E k \in 1..(Len(u) - 1) : u[k] \in FaviconSuffixed /\ u[k + 1] = "/"

\* The positions of the piece favicon where "/favicon/" occurs in u.
SeparatorAt(u) ==
  {k \in 2..(Len(u) - 1) :
     u[k - 1] \in {"/", "://"} /\ u[k] = "favicon" /\ u[k + 1] = "/"}

Least(S) == CHOOSE x \in S : \A y \in S : x <= y

RECURSIVE split_last(_)
\* icon_url.split("/favicon/")[-1]: what follows the last of the occurrences
\* of the separator, taken from the left without overlap; all of u if none.
split_last(u) ==
  IF SeparatorAt(u) = {}
  THEN u
  ELSE split_last(SubSeq(u, Least(SeparatorAt(u)) + 2, Len(u)))

\* urlparse(url).netloc: what stands between "://" and the next "/".
netloc(u) ==
  IF Len(u) >= 3 /\ u[2] = "://" /\ u[3] # "/" THEN <<u[3]>> ELSE <<>>

domain(u) == IF contains_favicon(u) THEN split_last(u) ELSE netloc(u)

\* The dict appended for a site; f"{domain}.ico"
IconTask(u) ==
  [url |-> u, domain |-> domain(u), filename |-> domain(u) \o <<".ico">>]

\* Everything main and download_icon work on: untouched while the list is built.
runVars == <<tasks, files, files0, i, success_count, failed_count, failed_urls,
             results, calls, nreq, resp, icon_url, icon_data, reqs, page, rel,
             rejected, fault, locRaised, dirBefore>>

InitBuild ==
  /\ data \in Datasets
  /\ pos = 0
  /\ http_icons = <<>>
  /\ pc = "build"
  /\ tasks = <<>>
  /\ files = [f \in Filenames |-> Absent]
  /\ files0 = files
  /\ i = 0
  /\ success_count = 0
  /\ failed_count = 0
  /\ failed_urls = <<>>
  /\ results = <<>>
  /\ calls = <<>>
  /\ nreq = 0
  /\ resp = NoResp
  /\ icon_url = NoUrl
  /\ icon_data = NoData
  /\ reqs = <<>>
  /\ page = NoPage
  /\ rel = 0
  /\ rejected = {}
  /\ fault = "none"
  /\ locRaised = FALSE
  /\ dirBefore = files

\* if not icon_url.startswith("http"): continue
SkipSite ==
  /\ pc = "build"
  /\ pos < Len(data)
  /\ ~startswith_http(data[pos + 1])
  /\ pos' = pos + 1
  /\ UNCHANGED <<data, http_icons, pc, runVars>>

\* http_icons.append({...})
AppendSite ==
  /\ pc = "build"
  /\ pos < Len(data)
  /\ startswith_http(data[pos + 1])
  /\ http_icons' = Append(http_icons, IconTask(data[pos + 1]))
  /\ pos' = pos + 1
  /\ UNCHANGED <<data, pc, runVars>>

\* return http_icons
ReturnIcons ==
  /\ pc = "build"
  /\ pos = Len(data)
  /\ pc' = "built"
  /\ UNCHANGED <<buildVars, runVars>>

NextBuild ==
  \/ SkipSite
  \/ AppendSite
  \/ ReturnIcons

SpecBuild == InitBuild /\ [][NextBuild]_vars

\* =========================================================== claims
Terminal == {"loop", "done", "aborted"}

\* The content types the validity check lets through.
IconOrPng == {"image/x-icon", "image/vnd.microsoft.icon", "image/png"}

\* A response that has success status, at least 100 bytes and an icon or PNG
\* content type.
PassesCheck(r) ==
  /\ r.kind = "resp"
  /\ r.status \in 200..299
  /\ r.size >= 100
  /\ r.ctype \in IconOrPng

\* C1: when the target file of a task exists at the call of download_icon, the
\* call returns (as skipped) without any request and leaves the output
\* directory as it was.
C1_SkipTouchesNothing ==
  (i >= 1 /\ dirBefore[tasks[i].filename].kind # "absent") =>
    /\ pc \in Terminal
    /\ nreq = 0
    /\ files = dirBefore
    /\ Len(results) = i
    /\ results[i] = "skipped"

\* A second task of the same filename is skipped after the first wrote the file.
C1_Witness ==
  /\ pc = "loop"
  /\ results = <<"success", "skipped">>
  /\ files0[tasks[2].filename].kind = "absent"
  /\ nreq = 0

\* C2: whatever faults the tasks meet, no exception leaves download_icon, and
\* the loop calls download_icon once for each task, in input order.
C2_NoEscapeEveryTaskOnce ==
  /\ pc # "crashed"
  /\ calls = [k \in 1..i |-> k]
  /\ Len(results) \in {i - 1, i}
  /\ pc = "done" => (i = Len(tasks) /\ Len(results) = Len(tasks))

\* A batch of two tasks that both failed, the second on an exception that is
\* no httpx.RequestError and left the locator.
C2_Witness ==
  /\ pc = "done"
  /\ calls = <<1, 2>>
  /\ results = <<"failed", "failed">>
  /\ locRaised
  /\ fault = "other"

RECURSIVE FailedSubseq(_)
\* The URLs of the first k tasks whose call returned failure, in input order.
FailedSubseq(k) ==
  IF k = 0 THEN <<>>
  ELSE IF results[k] = "failed"
       THEN Append(FailedSubseq(k - 1), tasks[k].url)
       ELSE FailedSubseq(k - 1)

\* C3: failed_urls is the subsequence of the tasks' URLs whose call returned
\* failure, in input order, after every call and when the loop is over.
C3_FailedUrlsExact ==
  /\ failed_urls = FailedSubseq(Len(results))
  /\ pc = "done" => Len(results) = Len(tasks)

\* Two different tasks failed, the loop is over.
C3_Witness ==
  /\ pc = "done"
  /\ results = <<"failed", "failed">>
  /\ tasks[1].url # tasks[2].url
  /\ failed_urls = <<tasks[1].url, tasks[2].url>>

\* C4: the locator returns a URL only when the request of that URL, the last
\* of the resolution, got success status, at least 100 bytes and an icon or
\* PNG content type; a response the locator went on from does not pass that
\* test, so 100 bytes are not rejected for their size.
C4_ReturnedUrlValidated ==
  /\ pc = "fetch" =>
       /\ reqs # <<>>
       /\ icon_url = reqs[Len(reqs)]
       /\ PassesCheck(resp)
  /\ (pc \in {"html", "rels"} /\ resp.kind = "resp") => ~PassesCheck(resp)

\* The locator returned on a response of exactly 100 bytes.
C4_Witness ==
  /\ pc = "fetch"
  /\ resp.size = 100
  /\ icon_url = reqs[Len(reqs)]

\* C5: a success response for /favicon.ico whose content type is neither icon
\* nor PNG is not returned: the locator goes to the HTML step, which requests
\* the site URL and parses the page.
C5_WrongTypeFallsThrough ==
  [][ /\ ( /\ pc = "favicon"
           /\ pc' # "aborted"
           /\ resp'.kind = "resp"
           /\ resp'.status \in 200..299
           /\ resp'.ctype \notin IconOrPng )
         => (pc' = "html" /\ icon_url' = NoUrl /\ reqs' = <<IcoUrl(base_url)>>)
      /\ (pc = "html" /\ pc' # "aborted")
         => /\ nreq' = nreq + 1
            /\ resp'.kind = "resp" =>
                 /\ pc' = "rels"
                 /\ reqs' = Append(reqs, tasks[i].url)
                 /\ page' = resp'.page
    ]_vars

\* /favicon.ico came back 200 text/html with 100 bytes; the locator returned
\* nothing and stands at the HTML step.
C5_Witness ==
  /\ pc = "html"
  /\ reqs = <<IcoUrl(base_url)>>
  /\ resp.kind = "resp"
  /\ resp.status = 200
  /\ resp.size = 100
  /\ resp.ctype = "text/html"
  /\ icon_url = NoUrl

\* C6: every error of a locator step is swallowed: after an error of the
\* /favicon.ico request the HTML step runs, and no exception leaves the
\* locator.
C6_LocatorSwallowsAll ==
  /\ ~locRaised
  /\ (nreq = 1 /\ resp.kind = "exc") => pc = "html"

\* A file this run wrote, with its whole payload.
Written(f) == files[f] # files0[f] /\ files[f].kind = "full"

\* C7: every file download_icon writes holds the unmodified body of an
\* icon-typed response that passes the validity check or the conversion of a
\* PNG-typed one.
C7_OnlyIconsPersisted ==
  \A f \in Filenames :
    Written(f) =>
      /\ files[f].size >= 100
      /\ \/ ~files[f].conv /\ files[f].ctype \in {"image/x-icon", "image/vnd.microsoft.icon"}
         \/ files[f].conv /\ files[f].ctype = "image/png"

\* C8: when no call is under way (a call returned, the run ended or was
\* interrupted) a target file exists only if it existed before the run or a
\* task that owns it returned success and the file holds the whole payload.
C8_FileIffCompleted ==
  \A f \in Filenames :
    (pc \in Terminal /\ files[f].kind # "absent") =>
      \/ files0[f].kind # "absent" /\ files[f] = files0[f]
      \/ /\ files[f].kind = "full"
         /\ \E k \in 1..Len(results) : tasks[k].filename = f /\ results[k] = "success"

\* C9: a call that fails before the write step (nothing found, transport
\* error, error status of the confirming fetch, failed conversion) returns
\* failure and leaves the output directory as it was.
C9_EarlyFailureTouchesNothing ==
  fault \in {"notfound", "transport", "status", "conversion"} =>
    /\ pc \in Terminal
    /\ Len(results) = i
    /\ results[i] = "failed"
    /\ files = dirBefore

\* The conversion of the second task failed after the first task wrote a file.
C9_Witness ==
  /\ pc = "loop"
  /\ fault = "conversion"
  /\ results = <<"success", "failed">>
  /\ files = dirBefore
  /\ files # files0

\* The tag soup.find gives for the rel at position r: the first tag whose rel
\* attribute is that rel or has it among its tokens; 0 if there is none.
C10_Matched(t, r) ==
  \/ t.rel = FAVICON_RELS[r]
  \/ Len(FAVICON_RELS[r]) = 1 /\ \E n \in DOMAIN t.rel : t.rel[n] = FAVICON_RELS[r][1]

C10_First(pg, r) ==
  LET S == {k \in DOMAIN pg : C10_Matched(pg[k], r)}
  IN IF S = {} THEN 0 ELSE CHOOSE k \in S : \A j \in S : k <= j

C10_Href(pg, r) == IF C10_First(pg, r) = 0 THEN NoHref ELSE pg[C10_First(pg, r)].href

\* The page has a link tag matched by the rel at position r, with an href.
C10_Present(pg, r) ==
  \E k \in DOMAIN pg : C10_Matched(pg[k], r) /\ pg[k].href.kind # "none"

\* C10 as stated: a URL returned from the HTML step is the href of a tag of
\* the highest-priority rel present in the page.
C10_FirstRelWins ==
  (pc = "fetch" /\ rel >= 1) =>
    \E r \in 1..3 :
      /\ C10_Present(page, r)
      /\ \A q \in 1..(r - 1) : ~C10_Present(page, q)
      /\ \E k \in DOMAIN page :
           /\ C10_Matched(page[k], r)
           /\ page[k].href.kind # "none"
           /\ icon_url = urljoin(base_url, page[k].href)

\* C10 amended: a URL returned from the HTML step is the resolved href of the
\* first tag matching some rel, its response passed the validity check, and
\* the first tag of every rel before it had no href or was requested and
\* failed the check.
C10_FirstValidRelWins ==
  (pc = "fetch" /\ rel >= 1) =>
    /\ rel <= 3
    /\ C10_Href(page, rel).kind # "none"
    /\ icon_url = urljoin(base_url, C10_Href(page, rel))
    /\ PassesCheck(resp)
    /\ \A q \in 1..(rel - 1) :
         \/ C10_Href(page, q).kind = "none"
         \/ urljoin(base_url, C10_Href(page, q)) \in rejected

\* The apple-touch-icon href was returned after the icon href was refused.
C10_Witness ==
  /\ pc = "fetch"
  /\ rel = 3
  /\ C10_Present(page, 1)
  /\ icon_url = urljoin(base_url, C10_Href(page, 3))
  /\ urljoin(base_url, C10_Href(page, 1)) \in rejected
  /\ icon_url \notin rejected

\* The three recognised rels, as token lists.
C11_Rels == {<<"icon">>, <<"shortcut", "icon">>, <<"apple-touch-icon">>}

\* The page has one link tag, of a recognised rel and with an href.
C11_SingleLink(pg) ==
  /\ Len(pg) = 1
  /\ pg[1].rel \in C11_Rels
  /\ pg[1].href.kind # "none"

\* C11: when /favicon.ico gave nothing and the page has a single icon link,
\* the locator returns that link's resolved href as soon as a request of it
\* passes the validity check, and gives up only after a request of it failed
\* the check or raised.
C11_OnlyLinkIsChosen ==
  [][ (pc = "rels" /\ C11_SingleLink(page) /\ pc' # "aborted") =>
        /\ (nreq' = nreq + 1 /\ PassesCheck(resp'))
             => (pc' = "fetch" /\ icon_url' = urljoin(base_url, page[1].href))
        /\ (nreq' = nreq + 1 /\ resp'.kind = "resp" /\ ~PassesCheck(resp'))
             => (pc' = "rels" /\ urljoin(base_url, page[1].href) \in rejected')
        /\ (nreq' = nreq /\ pc' # "rels")
             => urljoin(base_url, page[1].href) \in rejected
    ]_vars

\* The page held only an apple-touch-icon link and its href was returned.
C11_Witness ==
  /\ pc = "fetch"
  /\ rel = 3
  /\ Len(page) = 1
  /\ page[1].rel = <<"apple-touch-icon">>
  /\ icon_url = urljoin(base_url, page[1].href)
  /\ PassesCheck(resp)

\* C15: when the response for /favicon.ico passes the validity check, the
\* locator returns that URL, and a resolution that returns it has made that
\* one request and no other: the page of the site was not requested.
C15_ShortCircuit ==
  [][ /\ (pc = "favicon" /\ nreq' = nreq + 1 /\ PassesCheck(resp'))
           => (pc' = "fetch" /\ icon_url' = IcoUrl(base_url))
      /\ (pc = "favicon" /\ pc' = "fetch")
           => /\ icon_url' = IcoUrl(base_url)
              /\ reqs' = <<IcoUrl(base_url)>>
              /\ nreq' = 1
              /\ page' = NoPage
    ]_vars

\* /favicon.ico came back as a valid PNG and was returned after one request.
C15_Witness ==
  /\ pc = "fetch"
  /\ icon_url = IcoUrl(base_url)
  /\ reqs = <<IcoUrl(base_url)>>
  /\ nreq = 1
  /\ resp.ctype = "image/png"
  /\ PassesCheck(resp)

\* The number of the booked results that are of the kinds in K.
C16_Count(K) == Cardinality({k \in 1..Len(results) : results[k] \in K})

\* C16: after each iteration success_count + failed_count is the number of
\* tasks processed and failed_count is the length of failed_urls; a skipped
\* task counts as a success, never as a failure.
C16_CountersAgree ==
  /\ success_count + failed_count = Len(results)
  /\ failed_count = Len(failed_urls)
  /\ success_count = C16_Count({"success", "skipped"})
  /\ failed_count = C16_Count({"failed"})
  /\ pc \in {"loop", "done"} => Len(results) = i

\* A run of two tasks, the first skipped and the second failed.
C16_Witness ==
  /\ pc = "done"
  /\ results = <<"skipped", "failed">>
  /\ success_count = 1
  /\ failed_count = 1
  /\ Len(failed_urls) = 1

\* C17: target files are write-once. A step changes a file only when it is
\* the target of the task in hand and did not exist when that call of
\* download_icon began: the step creates it, or writes into the file this
\* call created. No step deletes a file, and a file the run found in the
\* output directory keeps its content.
C17_WriteOnce ==
  [][ \A f \in Filenames :
        /\ files'[f] # files[f] =>
             /\ f = filename
             /\ dirBefore[f] = Absent
             /\ \/ pc = "open" /\ files[f] = Absent /\ files'[f] = Empty
                \/ pc = "write" /\ files[f] = Empty
             /\ files'[f] # Absent
        /\ files0[f] # Absent => files'[f] = files0[f]
    ]_vars

\* Two tasks with one target: the write of the first failed and left the file,
\* and the second found it and skipped.
C17_Witness ==
  /\ pc = "done"
  /\ Len(tasks) = 2
  /\ tasks[1].filename = tasks[2].filename
  /\ results = <<"failed", "skipped">>
  /\ files0[tasks[1].filename] = Absent
  /\ files[tasks[1].filename] # Absent

\* C12: in the list get_all_http_icons builds, two tasks that come from
\* different urls never have the same target filename.
C12_DistinctFilenames ==
  \A a, b \in 1..Len(http_icons) :
    http_icons[a].url # http_icons[b].url
      => http_icons[a].filename # http_icons[b].filename

\* An absolute http or https URL: the scheme, "://" and an authority.
C13_Absolute(u) ==
  /\ Len(u) >= 3
  /\ u[1] \in {"http", "https"}
  /\ u[2] = "://"
  /\ u[3] \notin {"/", "://"}

\* C13: every task of the list has a non-empty domain and comes from an
\* absolute http or https URL, and the list returned holds no site whose url
\* is not one.
C13_OnlyAbsoluteHttp ==
  /\ \A k \in 1..Len(http_icons) :
       /\ http_icons[k].domain # <<>>
       /\ C13_Absolute(http_icons[k].url)
  /\ pc = "built" =>
       \A s \in 1..Len(data) :
         ~C13_Absolute(data[s])
           => \A k \in 1..Len(http_icons) : http_icons[k].url # data[s]

\* The positions in u of a path segment named favicon that has a "/" after it.
C14_Segments(u) ==
  {k \in 2..(Len(u) - 1) : u[k - 1] = "/" /\ u[k] = "favicon" /\ u[k + 1] = "/"}

\* The positions in u of a piece that ends in favicon and has a "/" after it.
C14_Mentions(u) ==
  {k \in 1..(Len(u) - 1) : u[k] \in {"favicon", "myfavicon"} /\ u[k + 1] = "/"}

\* What follows in u the "/" after position k.
C14_After(u, k) == SubSeq(u, k + 2, Len(u))

\* The authority of an absolute URL.
C14_Authority(u) == IF C13_Absolute(u) THEN <<u[3]>> ELSE <<>>

\* C14: the domain of a task whose url has the path segment favicon/ is the
\* text after that segment, and the domain of a task whose url does not hold
\* favicon/ is the authority of the url. A url that holds favicon/ only as
\* the end of a longer segment may go either way.
C14_DomainKey ==
  \A t \in 1..Len(http_icons) :
    LET u == http_icons[t].url
        d == http_icons[t].domain
    IN  IF C14_Segments(u) # {}
        THEN \E k \in C14_Segments(u) : d = C14_After(u, k)
        ELSE IF C14_Mentions(u) = {}
        THEN d = C14_Authority(u)
        ELSE \/ d = C14_Authority(u)
             \/ \E k \in C14_Mentions(u) : d = C14_After(u, k)

====
